---------------------------- MODULE Spec2Model ----------------------------
(***************************************************************************)
(* poh: run commands on remote servers over ssh (src/poh/poh.py).          *)
(*                                                                         *)
(* Text is modelled as a sequence of one-character strings.  Two literals  *)
(* of the source are written as a single element: the artifact extension   *)
(* ("retval", "stdout", "stderr") and the 14-character stderr prefix       *)
(* "ControlSocket ".                                                       *)
(***************************************************************************)
EXTENDS Integers, Sequences, FiniteSets, TLC

VARIABLES
    servers,       \* run_poh's servers argument: a sorted list of distinct names
    commands,      \* run_poh's commands argument: ordered mapping source -> command list
    flags,         \* run_poh's display flags
    pc,            \* where run_poh / remote_execute stands
    exc,           \* the exception in flight, "none" when there is none
    handles,       \* artifact name -> "open" | "closed", for every handle open() returned
    result_files,  \* remote_execute's result_files list (artifact names)
    child_procs,   \* remote_execute's child_procs list (run-queue indexes)
    nwaited,       \* how many entries of child_procs the wait loop has passed
    proc,          \* run-queue index -> the ssh process of that unit
    rvbuf,         \* artifact name -> text written to the handle and not yet flushed
    disk,          \* output directory: artifact name -> content
    results,       \* what read_result_files returned
    ran,           \* the consumers run_poh has called
    arg,           \* input of the function under study (pure-function specifications)
    ret,           \* its result
    env,           \* the platform and the process environment the run sees
    outdir,        \* the output directory: "present" | "removed"
    shown          \* what the run has written to its standard streams

vars == <<servers, commands, flags, pc, exc, handles, result_files, child_procs,
          nwaited, proc, rvbuf, disk, results, ran, arg, ret, env, outdir, shown>>

-----------------------------------------------------------------------------
(* Bounds *)

MaxCmds == 2
MaxUnits == 4
\* The units of a run followed to its end
MaxRunUnits == 2

MaxCollectCmds == 10
MaxFileLen == 3
MaxTextLen == 5
MaxLineLen == 7
MaxWidth == 4
MaxStreamLen == 3
MaxLimit == 2
MaxTerm == 2
MaxColumns == 12

-----------------------------------------------------------------------------
(* Text helpers *)

None == <<"None">>

Digits == <<"0", "1", "2", "3", "4", "5", "6", "7", "8", "9">>

IsDigit(c) == \E d \in 1..10 : Digits[d] = c

DigitValue(c) == (CHOOSE d \in 1..10 : Digits[d] = c) - 1

Whitespace == {" ", "\n"}

Max(S) == CHOOSE m \in S : \A n \in S : n <= m

Min(S) == CHOOSE m \in S : \A n \in S : m <= n

SeqsUpTo(alphabet, n) == UNION {[1..k -> alphabet] : k \in 0..n}

RECURSIVE NatStr(_)
NatStr(n) == IF n < 10 THEN <<Digits[n + 1]>>
             ELSE NatStr(n \div 10) \o <<Digits[(n % 10) + 1]>>

\* str(cmd_num) and '{:d}'.format(returncode)
IntStr(n) == IF n < 0 THEN <<"-">> \o NatStr(-n) ELSE NatStr(n)


-----------------------------------------------------------------------------
(* Inputs of run_poh *)

\* main_exe hands run_poh sorted(args.servers): distinct names in lexicographic
\* order.  The names a run may use, in that order.
ServerList == << <<"a">>, <<"a", ".", "1">>, <<"b">> >>

NthOf(I, k) == CHOOSE i \in I : Cardinality({j \in I : j <= i}) = k

ServerLists ==
    { [k \in 1..Cardinality(I) |-> ServerList[NthOf(I, k)]] :
        I \in (SUBSET (1..Len(ServerList))) \ {{}} }

\* The n commands of one source; a command's text is opaque.
CmdList(src, n) == [i \in 1..n |-> <<src, i>>]

\* args.commands when the positional commands come first on the command line:
\* they are listed under the key None, then each command file's commands.
CommandMaps ==
    { << [src |-> "None", cmds |-> CmdList("None", n)] >> : n \in 1..MaxCmds }
    \cup
    { << [src |-> "cmds.txt", cmds |-> CmdList("cmds.txt", n)] >> : n \in 1..MaxCmds }
    \cup
    { << [src |-> "None", cmds |-> CmdList("None", n[1])],
         [src |-> "cmds.txt", cmds |-> CmdList("cmds.txt", n[2])] >> :
        n \in {m \in (1..MaxCmds) \X (0..MaxCmds) : m[1] + m[2] <= MaxCmds} }

\* args.commands when a command file comes first on the command line: the
\* positional commands are moved behind the files' commands.
CommandMapsNoneLast ==
    { << [src |-> "cmds.txt", cmds |-> CmdList("cmds.txt", n[2])],
         [src |-> "None", cmds |-> CmdList("None", n[1])] >> :
        n \in {m \in (1..MaxCmds) \X (1..MaxCmds) : m[1] + m[2] <= MaxCmds} }

\* run_poh's keyword arguments; output_dir_given stands for output_dir not
\* being None.
AllFlags == [raw_output : BOOLEAN, quiet_output : BOOLEAN, one_line : BOOLEAN,
             long_output : BOOLEAN, wide_output : BOOLEAN,
             transpose_output : BOOLEAN, color : BOOLEAN,
             keep_output : BOOLEAN, output_dir_given : BOOLEAN]

DefaultFlags == [raw_output |-> FALSE, quiet_output |-> FALSE, one_line |-> FALSE,
                 long_output |-> FALSE, wide_output |-> FALSE,
                 transpose_output |-> FALSE, color |-> FALSE,
                 keep_output |-> FALSE, output_dir_given |-> FALSE]

\* one_line is of no effect when raw_output or quiet_output is set.
FlagSets == {f \in AllFlags :
                /\ f.raw_output => ~f.one_line
                /\ \A k \in DOMAIN f \ {"raw_output", "one_line"} : ~f[k]}

\* The display flags of a run that keeps nothing; one_line, long_output and
\* wide_output are left off where raw_output or quiet_output is set.
DisplayFlagSets ==
    {f \in AllFlags :
        /\ ~f.keep_output /\ ~f.output_dir_given
        /\ (f.raw_output \/ f.quiet_output) =>
               ~f.one_line /\ ~f.long_output /\ ~f.wide_output}

\* What the run finds around it: the window size the terminal reports for
\* stdout (None when the query fails), the COLUMNS and LINES variables
\* (None when unset), what shutil.rmtree says of itself, and the
\* POH_IGNORE_PY2_WARNS variable.
DefaultEnv == [winsize |-> None, COLUMNS |-> None, LINES |-> None,
               rmtree |-> "safe", POH_IGNORE_PY2_WARNS |-> None]

\* shutil.rmtree with avoids_symlink_attacks True, with it False, and without
\* the attribute; POH_IGNORE_PY2_WARNS unset, 'no' and something else.
CleanupEnvs ==
    {[DefaultEnv EXCEPT !.rmtree = r, !.POH_IGNORE_PY2_WARNS = w] :
        r \in {"safe", "unsafe", "unknown"},
        w \in {None, <<"n", "o">>, <<"1">>}}

\* What one remote command may do: its exit code and what it writes.
ChildOutcomeList ==
    << [rc |-> 0, out |-> <<"h", "\n">>, err |-> <<>>],
       [rc |-> 0, out |-> <<>>, err |-> <<>>],
       [rc |-> 255, out |-> <<>>, err |-> <<"e", "\n">>] >>

ChildOutcomes == {ChildOutcomeList[k] : k \in DOMAIN ChildOutcomeList}

\* What the n units of a run may do: all alike, or each unlike the next.
OutcomePatterns(n) ==
    {[i \in 1..n |-> o] : o \in ChildOutcomes}
    \cup {[i \in 1..n |-> ChildOutcomeList[((i + k) % Len(ChildOutcomeList)) + 1]] :
            k \in DOMAIN ChildOutcomeList}

-----------------------------------------------------------------------------
(* remote_execute *)

FileTypes == <<"retval", "stdout", "stderr">>

RECURSIVE Chain(_)
Chain(cmdmap) == IF cmdmap = <<>> THEN <<>>
                 ELSE Head(cmdmap).cmds \o Chain(Tail(cmdmap))

\* itertools.product(servers, enumerate(itertools.chain(*commands.values()), 1))
RunQueueOf(srvs, cmdmap) ==
    LET all == Chain(cmdmap)
        C == Len(all)
    IN  [i \in 1..(Len(srvs) * C) |->
            [server  |-> srvs[((i - 1) \div C) + 1],
             cmd_num |-> ((i - 1) % C) + 1,
             cmd     |-> all[((i - 1) % C) + 1]]]

RunQueue == RunQueueOf(servers, commands)

\* A name that leaves the command number out.
ArtifactNameNoNumber(server, cmd_num, filetype) ==
    server \o <<".", "1", ".", filetype>>

\* '.'.join([server, str(cmd_num), filetype])
ArtifactName(server, cmd_num, filetype) ==
    server \o <<".">> \o IntStr(cmd_num) \o <<".", filetype>>

UnitPaths(i) ==
    [k \in 1..3 |-> ArtifactName(RunQueue[i].server, RunQueue[i].cmd_num, FileTypes[k])]

\* open(filepath, 'w') for the first k paths of a unit: each file is created
\* empty (or truncated) and a handle returned.
OpenedHandles(paths, k) == [n \in {paths[j] : j \in 1..k} |-> "open"]

CreatedFiles(paths, k) == [n \in {paths[j] : j \in 1..k} |-> <<>>]

NoProc == [state |-> "none", returncode |-> None]

\* One turn of the start loop: the three artifacts are opened, added to
\* result_files, and the ssh process is started.
StartUnit ==
    /\ pc = "start"
    /\ Len(child_procs) < Len(RunQueue)
    /\ LET i == Len(child_procs) + 1
           paths == UnitPaths(i)
       IN  /\ handles' = OpenedHandles(paths, 3) @@ handles
           /\ disk' = CreatedFiles(paths, 3) @@ disk
           /\ rvbuf' = CreatedFiles(paths, 3) @@ rvbuf
           /\ result_files' = result_files \o paths
           /\ proc' = [proc EXCEPT ![i] = [state |-> "running", returncode |-> None]]
           /\ child_procs' = Append(child_procs, i)
           /\ pc' = IF i = Len(RunQueue) THEN "wait" ELSE "start"
    /\ UNCHANGED <<env, outdir, shown, servers, commands, flags, exc, nwaited, results, ran, arg, ret>>

\* open() raises on the k-th artifact of a unit: the list comprehension is
\* left before result_files.extend, and the k-1 handles it had opened are
\* referenced by nothing.  Whether the runtime finalizes (closes) them at
\* once is left to the implementation.
StartUnitOpenFails ==
    /\ pc = "start"
    /\ Len(child_procs) < Len(RunQueue)
    /\ \E k \in 1..3, finalized \in BOOLEAN :
        LET paths == UnitPaths(Len(child_procs) + 1)
            orphans == OpenedHandles(paths, k - 1)
        IN  /\ handles' = [n \in DOMAIN orphans |->
                             IF finalized THEN "closed" ELSE "open"] @@ handles
            /\ disk' = CreatedFiles(paths, k - 1) @@ disk
            /\ rvbuf' = CreatedFiles(paths, k - 1) @@ rvbuf
    /\ exc' = "IOError"
    /\ pc' = "finally"
    /\ UNCHANGED <<env, outdir, shown, servers, commands, flags, result_files, child_procs, nwaited,
                   proc, results, ran, arg, ret>>

\* A start loop that, when Popen raises, goes on to wait for the processes
\* it had started.
StartUnitPopenFailsThenWaits ==
    /\ pc = "start"
    /\ Len(child_procs) < Len(RunQueue)
    /\ LET paths == UnitPaths(Len(child_procs) + 1)
       IN  /\ handles' = OpenedHandles(paths, 3) @@ handles
           /\ disk' = CreatedFiles(paths, 3) @@ disk
           /\ rvbuf' = CreatedFiles(paths, 3) @@ rvbuf
           /\ result_files' = result_files \o paths
    /\ exc' = "OSError"
    /\ pc' = IF child_procs = <<>> THEN "finally" ELSE "wait"
    /\ UNCHANGED <<env, outdir, shown, servers, commands, flags, child_procs, nwaited, proc, results,
                   ran, arg, ret>>

\* subprocess.Popen raises: the unit's artifacts are open and listed in
\* result_files, no process exists, nothing is appended to child_procs.
StartUnitPopenFails ==
    /\ pc = "start"
    /\ Len(child_procs) < Len(RunQueue)
    /\ LET paths == UnitPaths(Len(child_procs) + 1)
       IN  /\ handles' = OpenedHandles(paths, 3) @@ handles
           /\ disk' = CreatedFiles(paths, 3) @@ disk
           /\ rvbuf' = CreatedFiles(paths, 3) @@ rvbuf
           /\ result_files' = result_files \o paths
    /\ exc' = "OSError"
    /\ pc' = "finally"
    /\ UNCHANGED <<env, outdir, shown, servers, commands, flags, child_procs, nwaited, proc, results,
                   ran, arg, ret>>

\* A started ssh process ends on its own schedule; what it wrote is in its
\* stdout and stderr artifacts (it writes through its own descriptors).
ChildExit(i) ==
    /\ proc[i].state = "running"
    /\ \E o \in ChildOutcomes :
        /\ proc' = [proc EXCEPT ![i] = [state |-> "exited", returncode |-> o.rc]]
        /\ disk' = (UnitPaths(i)[2] :> o.out) @@ (UnitPaths(i)[3] :> o.err) @@ disk
    /\ UNCHANGED <<env, outdir, shown, servers, commands, flags, pc, exc, handles, result_files,
                   child_procs, nwaited, rvbuf, results, ran, arg, ret>>

ChildExits == \E i \in DOMAIN proc : ChildExit(i)

\* A wait loop that polls instead of blocking: a process that is still
\* running is passed over and no exit code is written for it.
WaitUnitNoBlock ==
    /\ pc = "wait"
    /\ nwaited < Len(child_procs)
    /\ LET i == child_procs[nwaited + 1]
           rvfile == UnitPaths(i)[1]
       IN  rvbuf' = IF proc[i].state = "exited"
                    THEN [rvbuf EXCEPT ![rvfile] =
                             @ \o IntStr(proc[i].returncode) \o <<"\n">>]
                    ELSE rvbuf
    /\ nwaited' = nwaited + 1
    /\ pc' = IF nwaited + 1 = Len(child_procs) THEN "finally" ELSE "wait"
    /\ UNCHANGED <<env, outdir, shown, servers, commands, flags, exc, handles, result_files, child_procs,
                   proc, disk, results, ran, arg, ret>>

\* A wait loop that records processes in the order they end.
WaitUnitAnyOrder ==
    /\ pc = "wait"
    /\ nwaited < Len(child_procs)
    /\ \E i \in DOMAIN proc :
        LET rvfile == UnitPaths(i)[1]
        IN  /\ proc[i].state = "exited"
            /\ rvbuf[rvfile] = <<>>
            /\ rvbuf' = [rvbuf EXCEPT ![rvfile] =
                            @ \o IntStr(proc[i].returncode) \o <<"\n">>]
    /\ nwaited' = nwaited + 1
    /\ pc' = IF nwaited + 1 = Len(child_procs) THEN "finally" ELSE "wait"
    /\ UNCHANGED <<env, outdir, shown, servers, commands, flags, exc, handles, result_files, child_procs,
                   proc, disk, results, ran, arg, ret>>

\* One turn of the wait loop: communicate() returns once the process has
\* ended, then the exit code is written to the unit's retval handle.
WaitUnit ==
    /\ pc = "wait"
    /\ nwaited < Len(child_procs)
    /\ LET i == child_procs[nwaited + 1]
           rvfile == UnitPaths(i)[1]
       IN  /\ proc[i].state = "exited"
           /\ rvbuf' = [rvbuf EXCEPT ![rvfile] = @ \o IntStr(proc[i].returncode) \o <<"\n">>]
    /\ nwaited' = nwaited + 1
    /\ pc' = IF nwaited + 1 = Len(child_procs) THEN "finally" ELSE "wait"
    /\ UNCHANGED <<env, outdir, shown, servers, commands, flags, exc, handles, result_files, child_procs,
                   proc, disk, results, ran, arg, ret>>

\* The wait loop is left by an exception (an interrupt while blocked in
\* communicate, a failed write).
WaitRaises ==
    /\ pc = "wait"
    /\ nwaited < Len(child_procs)
    /\ exc' = "Interrupt"
    /\ pc' = "finally"
    /\ UNCHANGED <<env, outdir, shown, servers, commands, flags, handles, result_files, child_procs,
                   nwaited, proc, rvbuf, disk, results, ran, arg, ret>>

\* result_file.close() for every entry of result_files: buffered text reaches
\* the file and the handle is closed.
ClosedFiles == {result_files[j] : j \in DOMAIN result_files}

\* A finally block that returns, which discards the exception in flight.
FinallySwallows ==
    /\ pc = "finally"
    /\ handles' = [n \in DOMAIN handles |->
                     IF n \in ClosedFiles THEN "closed" ELSE handles[n]]
    /\ disk' = [n \in DOMAIN disk |->
                  IF n \in ClosedFiles THEN disk[n] \o rvbuf[n] ELSE disk[n]]
    /\ rvbuf' = [n \in DOMAIN rvbuf |->
                   IF n \in ClosedFiles THEN <<>> ELSE rvbuf[n]]
    /\ pc' = "returned"
    /\ UNCHANGED <<env, outdir, shown, servers, commands, flags, exc, result_files, child_procs, nwaited,
                   proc, results, ran, arg, ret>>

\* The finally block; remote_execute is then left, normally or by exc.
Finally ==
    /\ pc = "finally"
    /\ handles' = [n \in DOMAIN handles |->
                     IF n \in ClosedFiles THEN "closed" ELSE handles[n]]
    /\ disk' = [n \in DOMAIN disk |->
                  IF n \in ClosedFiles THEN disk[n] \o rvbuf[n] ELSE disk[n]]
    /\ rvbuf' = [n \in DOMAIN rvbuf |->
                   IF n \in ClosedFiles THEN <<>> ELSE rvbuf[n]]
    /\ pc' = IF exc = "none" THEN "returned" ELSE "raised"
    /\ UNCHANGED <<env, outdir, shown, servers, commands, flags, exc, result_files, child_procs, nwaited,
                   proc, results, ran, arg, ret>>

-----------------------------------------------------------------------------
(* Artifact readers *)

Raised(e) == [raised |-> e, value |-> None]

Returned(v) == [raised |-> "none", value |-> v]

\* input_file.readline(): the text up to and including the first newline
_read_one_line(content) ==
    LET nls == {i \in DOMAIN content : content[i] = "\n"}
    IN  IF nls = {} THEN content ELSE SubSeq(content, 1, Min(nls))

_read_entire_file(content) == content

\* The lines of a text, each with its newline
RECURSIVE LinesOf(_)
LinesOf(text) ==
    IF text = <<>> THEN <<>>
    ELSE LET first == _read_one_line(text)
         IN  <<first>> \o LinesOf(SubSeq(text, Len(first) + 1, Len(text)))

\* enumerate(input_file, 1): one per newline, and one more for a last line
\* without a newline
_count_lines(content) ==
    Cardinality({i \in DOMAIN content : content[i] = "\n"})
    + (IF content # <<>> /\ content[Len(content)] # "\n" THEN 1 ELSE 0)

RECURSIVE DigitsValue(_)
DigitsValue(ds) == IF ds = <<>> THEN 0
                   ELSE 10 * DigitsValue(SubSeq(ds, 1, Len(ds) - 1))
                        + DigitValue(ds[Len(ds)])

\* str.strip(): leading and trailing whitespace removed
Strip(s) ==
    LET keep == {i \in DOMAIN s : s[i] \notin Whitespace}
    IN  IF keep = {} THEN <<>> ELSE SubSeq(s, Min(keep), Max(keep))

\* int(text): surrounding whitespace is ignored, then an optional sign and
\* at least one decimal digit; anything else is a ValueError.
PyInt(text) ==
    LET t == Strip(text)
        signed == t # <<>> /\ t[1] \in {"-", "+"}
        ds == IF signed THEN Tail(t) ELSE t
    IN  IF ds # <<>> /\ \A i \in DOMAIN ds : IsDigit(ds[i])
        THEN Returned(IF signed /\ t[1] = "-" THEN 0 - DigitsValue(ds)
                      ELSE DigitsValue(ds))
        ELSE Raised("ValueError")

\* The conversion without its except clause.
_read_int_unguarded(content) == PyInt(_read_one_line(content))

\* try: int(_read_one_line(filepath)) / except ValueError: -1
_read_int_from_file(content) ==
    LET number == PyInt(_read_one_line(content))
    IN  IF number.raised = "ValueError" THEN Returned(-1) ELSE number

\* '$' without re.MULTILINE, after q characters: the end of the text, or just
\* before a newline that ends the text
AtDollar(text, q) ==
    \/ q = Len(text)
    \/ q = Len(text) - 1 /\ text[Len(text)] = "\n"

\* Where a match of 'ControlSocket .*?\n?$' that began at the start of the
\* text and gave k characters to '.*?' ends; 0 when there is none.
MatchEnd(text, k) ==
    LET p == 1 + k
    IN  IF \E i \in 2..p : text[i] = "\n" THEN 0
        ELSE IF p < Len(text) /\ text[p + 1] = "\n" /\ AtDollar(text, p + 1)
             THEN p + 1
        ELSE IF AtDollar(text, p) THEN p
        ELSE 0

\* re.sub(r'^ControlSocket .*?\n?$', '', contents_string): '^' matches at the
\* start of the text only, '.*?' takes as few characters as a match allows.
ReSubControlSocket(text) ==
    IF text = <<>> \/ text[1] # "ControlSocket " THEN text
    ELSE LET ks == {k \in 0..(Len(text) - 1) : MatchEnd(text, k) > 0}
         IN  IF ks = {} THEN text
             ELSE SubSeq(text, MatchEnd(text, Min(ks)) + 1, Len(text))

\* glob '*.?.<filetype>': any text not starting with a dot, a dot, exactly one
\* character, a dot, the extension
GlobMatch(name, filetype) ==
    /\ Len(name) >= 4
    /\ name[Len(name)] = filetype
    /\ name[Len(name) - 1] = "."
    /\ name[Len(name) - 3] = "."
    /\ name[1] # "."

Glob(dir, filetype) == {n \in DOMAIN dir : GlobMatch(n, filetype)}

\* os.path.basename(resultfile).rsplit('.', 2)
RSplit2(name) ==
    LET dots == {i \in DOMAIN name : name[i] = "."}
        d2 == Max(dots)
        d1 == Max(dots \ {d2})
    IN  << SubSeq(name, 1, d1 - 1), SubSeq(name, d1 + 1, d2 - 1),
           SubSeq(name, d2 + 1, Len(name)) >>

\* The (contents, line count) pair stored for one result file
ReadArtifact(content, filetype, one_line) ==
    LET text == IF one_line THEN _read_one_line(content)
                ELSE _read_entire_file(content)
    IN  IF filetype = "retval"
        THEN << _read_int_from_file(content).value, _count_lines(content) >>
        ELSE IF filetype = "stderr"
        THEN << ReSubControlSocket(text), _count_lines(content) >>
        ELSE << text, _count_lines(content) >>

\* results[server][cmdnum][filetype], None where no file of that type was
\* found for the pair; a ValueError when a matched name has no number.
read_result_files(dir, one_line) ==
    LET restypes == {FileTypes[k] : k \in 1..3}
        found == UNION {Glob(dir, ft) : ft \in restypes}
        srvOf(n) == RSplit2(n)[1]
        numOf(n) == PyInt(RSplit2(n)[2])
        typeOf(n) == RSplit2(n)[3][1]
        entry(s, c, ft) ==
            LET fs == {n \in found : srvOf(n) = s /\ numOf(n).value = c
                                     /\ typeOf(n) = ft}
            IN  IF fs = {} THEN None
                ELSE ReadArtifact(dir[CHOOSE n \in fs : TRUE], ft, one_line)
    IN  IF \E n \in found : numOf(n).raised # "none" THEN Raised("ValueError")
        ELSE Returned(
            [s \in {srvOf(n) : n \in found} |->
                [c \in {numOf(n).value : n \in {m \in found : srvOf(m) = s}} |->
                    [ft \in restypes |-> entry(s, c, ft)]]])

-----------------------------------------------------------------------------
(* _get_terminal_size *)

\* A dimension is <<>> for None and <<n>> for the integer n.  The fields
\* columns_from and lines_from record which assignment of the function gave
\* the dimension its final value: "platform" (the TIOCGWINSZ query),
\* "environment" (COLUMNS or LINES) or "none".

\* struct.unpack('hh', fcntl.ioctl(fd, TIOCGWINSZ, ...)): on success both
\* dimensions, on IOError or any other exception both None.  Whatever
\* shutil.get_terminal_size() gave before is overwritten on either path.
QueryWindowSize(e) ==
    IF e.winsize # None
    THEN [term_columns |-> <<e.winsize[2]>>, term_lines |-> <<e.winsize[1]>>,
          columns_from |-> "platform", lines_from |-> "platform"]
    ELSE [term_columns |-> <<>>, term_lines |-> <<>>,
          columns_from |-> "none", lines_from |-> "none"]

\* int(os.environ.get(name)), None on TypeError (unset) and on ValueError
EnvironInt(text) ==
    IF text = None THEN <<>>
    ELSE IF PyInt(text).raised = "none" THEN <<PyInt(text).value>>
    ELSE <<>>

\* A variant that tries LINES only once COLUMNS has given a width
_get_terminal_size_chained(e) ==
    LET q == QueryWindowSize(e)
        cols == IF q.term_columns = <<>> THEN EnvironInt(e.COLUMNS) ELSE q.term_columns
        lines == IF q.term_lines = <<>> /\ cols # <<>>
                 THEN EnvironInt(e.LINES) ELSE q.term_lines
    IN  [term_columns |-> cols, term_lines |-> lines,
         columns_from |-> IF q.term_columns # <<>> THEN "platform"
                          ELSE IF cols # <<>> THEN "environment" ELSE "none",
         lines_from |-> IF q.term_lines # <<>> THEN "platform"
                        ELSE IF lines # <<>> THEN "environment" ELSE "none"]

_get_terminal_size(e) ==
    LET q == QueryWindowSize(e)
        cols == IF q.term_columns = <<>> THEN EnvironInt(e.COLUMNS) ELSE q.term_columns
        lines == IF q.term_lines = <<>> THEN EnvironInt(e.LINES) ELSE q.term_lines
    IN  [term_columns |-> cols, term_lines |-> lines,
         columns_from |-> IF q.term_columns # <<>> THEN "platform"
                          ELSE IF cols # <<>> THEN "environment" ELSE "none",
         lines_from |-> IF q.term_lines # <<>> THEN "platform"
                        ELSE IF lines # <<>> THEN "environment" ELSE "none"]

-----------------------------------------------------------------------------
(* print_execution_results: the width policy *)

ESC == "\\x1b"

Ellipsis == <<".", ".", ".">>

\* line[:n]: for n < 0 the text without its last -n characters
SliceTo(line, n) ==
    IF n >= 0 THEN SubSeq(line, 1, IF n < Len(line) THEN n ELSE Len(line))
    ELSE SubSeq(line, 1, Len(line) + n)

\* Where the leftmost match of '\x1b\[.*?m' at or after position i begins and
\* ends (<<0, 0>> when there is none): ESC, '[', then the nearest 'm'.
NextEscape(line, i) ==
    LET starts == {s \in i..(Len(line) - 2) :
                     /\ line[s] = ESC
                     /\ line[s + 1] = "["
                     /\ \E e \in (s + 2)..Len(line) : line[e] = "m"}
    IN  IF starts = {} THEN <<0, 0>>
        ELSE LET s == Min(starts)
             IN  <<s, Min({e \in (s + 2)..Len(line) : line[e] = "m"})>>

\* sum(map(len, re.findall('\x1b\[.*?m', line)))
RECURSIVE EscapedCharsFrom(_, _)
EscapedCharsFrom(line, i) ==
    LET m == NextEscape(line, i)
    IN  IF m[1] = 0 THEN 0
        ELSE (m[2] - m[1] + 1) + EscapedCharsFrom(line, m[2] + 1)

EscapedCharsNum(line) == EscapedCharsFrom(line, 1)

\* The two definitions of _shortened
_shortened(line, term_columns, color) ==
    IF ~color THEN SliceTo(line, term_columns - 3) \o Ellipsis
    ELSE LET escaped_chars_num == EscapedCharsNum(line)
         IN  IF term_columns + escaped_chars_num >= Len(line) THEN line
             ELSE SliceTo(line, term_columns + escaped_chars_num - 3) \o Ellipsis

\* _shortened(line) if len(line) > term_columns else line
PrintedLine(line, term_columns, color) ==
    IF Len(line) > term_columns THEN _shortened(line, term_columns, color)
    ELSE line

-----------------------------------------------------------------------------
(* print_execution_results: the body of one execution unit *)

\* text.splitlines(), for text whose only line boundary is the newline
RECURSIVE SplitLines(_)
SplitLines(text) ==
    IF text = <<>> THEN <<>>
    ELSE LET first == _read_one_line(text)
             line == IF first[Len(first)] = "\n"
                     THEN SubSeq(first, 1, Len(first) - 1) ELSE first
         IN  <<line>> \o SplitLines(SubSeq(text, Len(first) + 1, Len(text)))

\* seq[start:] for any integer start
PySliceFrom(seq, start) ==
    LET from == IF start < 0 THEN Max({Len(seq) + start, 0}) ELSE start
    IN  SubSeq(seq, from + 1, Len(seq))

\* '      X ' and '      > '
StreamPrefix(mark) == <<" ", " ", " ", " ", " ", " ", mark, " ">>

ClipMarker(mark) == StreamPrefix(mark) \o <<".", ".", ".">>

\* '      X Output clipped to the last {} of {} lines'.format(limit_lines, lnum)
ClipFooter(mark, limit_lines, lnum) ==
    StreamPrefix(mark) \o <<"O", "u", "t", "p", "u", "t", " ", "c", "l", "i", "p", "p", "e", "d", " ", "t", "o", " ", "t", "h", "e", " ", "l", "a", "s", "t", " ">>
    \o IntStr(limit_lines) \o <<" ", "o", "f", " ">> \o IntStr(lnum)
    \o <<" ", "l", "i", "n", "e", "s">>

\* The value of lnum after "for lnum, line in enumerate(lines, 1)": the loop
\* assigns it only when there is a line.
LnumAfter(lnum, lines) == IF lines = <<>> THEN lnum ELSE Len(lines)

\* One stream of the clipped branch, given lnum as the loop left it
ClippedStream(mark, lines, lnum, limit_lines) ==
    LET prefixed == [i \in DOMAIN lines |-> StreamPrefix(mark) \o lines[i]]
    IN  IF lnum > limit_lines
        THEN <<ClipMarker(mark)>> \o PySliceFrom(prefixed, 0 - limit_lines)
             \o <<ClipFooter(mark, limit_lines, lnum)>>
        ELSE prefixed

\* cmd_results maps each file type to its (contents, line count) pair.
_std_streams_lines(cmd_results, long_output, limit_lines) ==
    LET stdout == SplitLines(cmd_results["stdout"][1])
        stderr == SplitLines(cmd_results["stderr"][1])
        stdout_ln == cmd_results["stdout"][2]
        stderr_ln == cmd_results["stderr"][2]
        lnum_err == LnumAfter(1, stderr)
        lnum_out == LnumAfter(lnum_err, stdout)
        body == IF ~long_output
                THEN ClippedStream("X", stderr, lnum_err, limit_lines)
                     \o ClippedStream(">", stdout, lnum_out, limit_lines)
                ELSE [i \in DOMAIN stderr |-> StreamPrefix("X") \o stderr[i]]
                     \o [i \in DOMAIN stdout |-> StreamPrefix(">") \o stdout[i]]
    IN  body \o (IF stdout_ln + stderr_ln > 0 THEN << <<>> >> ELSE <<>>)

-----------------------------------------------------------------------------
(* print_execution_results: legend and result blocks *)

\* The characters server names and command numbers are made of, in code
\* point order; sorted() compares strings by code point.
CharOrder == <<" ", ".", "0", "1", "2", "3", "4", "5", "6", "7", "8", "9", "a", "b">>

CodePoint(c) == CHOOSE i \in DOMAIN CharOrder : CharOrder[i] = c

RECURSIVE StrLess(_, _)
StrLess(a, b) ==
    /\ b # <<>>
    /\ \/ a = <<>>
       \/ CodePoint(Head(a)) < CodePoint(Head(b))
       \/ Head(a) = Head(b) /\ StrLess(Tail(a), Tail(b))

\* sorted() of a set of strings
RECURSIVE SortedStrs(_)
SortedStrs(S) ==
    IF S = {} THEN <<>>
    ELSE LET first == CHOOSE x \in S : \A y \in S \ {x} : StrLess(x, y)
         IN  <<first>> \o SortedStrs(S \ {first})

\* sorted() of a set of integers
RECURSIVE SortedInts(_)
SortedInts(S) ==
    IF S = {} THEN <<>>
    ELSE <<Min(S)>> \o SortedInts(S \ {Min(S)})

Spaces(n) == [i \in 1..n |-> " "]

\* '{:<w}', '{:>w}' and '{:^w}' of a text
PadRight(s, w) == s \o Spaces(w - Len(s))

PadLeft(s, w) == Spaces(w - Len(s)) \o s

Centered(s, w) ==
    LET pad == Max({w - Len(s), 0})
    IN  Spaces(pad \div 2) \o s \o Spaces(pad - (pad \div 2))

RECURSIVE Flatten(_)
Flatten(seqs) == IF seqs = <<>> THEN <<>> ELSE Head(seqs) \o Flatten(Tail(seqs))

\* _escaped_with(text, [colour]): the colour's code before, a reset after
_escaped_with(text, code) ==
    <<ESC, "[">> \o code \o <<"m">> \o text \o <<ESC, "[", "0", "m">>

fg_red == <<"3", "1">>

fg_green == <<"3", "2">>

fg_yellow == <<"3", "3">>

fg_white == <<"3", "7">>

\* The text of a command, which _printable_string leaves as it is
CommandText(cmd) == (IF cmd[1] = "None" THEN <<"p">> ELSE <<"f">>) \o NatStr(cmd[2])

\* The list of ((cmdfile, cmd_num), cmd) built source by source
RECURSIVE CmdIndex(_)
CmdIndex(cmdmap) ==
    IF cmdmap = <<>> THEN <<>>
    ELSE [k \in DOMAIN Head(cmdmap).cmds |->
            [cmd_idx |-> <<Head(cmdmap).src, k - 1>>, cmd |-> Head(cmdmap).cmds[k]]]
         \o CmdIndex(Tail(cmdmap))

\* A numbering that starts again with every source
CmdMapPerSource(cmdmap) ==
    [g \in DOMAIN CmdIndex(cmdmap) |->
        [cmd_idx |-> CmdIndex(cmdmap)[g].cmd_idx,
         gcmd_num |-> CmdIndex(cmdmap)[g].cmd_idx[2] + 1,
         cmd |-> CmdIndex(cmdmap)[g].cmd]]

\* cmd_map, in the order of sorted(cmd_map.values()): enumerate(cmd_map, 1)
\* numbers the commands of all sources in one sequence.
CmdMap(cmdmap) ==
    [g \in DOMAIN CmdIndex(cmdmap) |->
        [cmd_idx |-> CmdIndex(cmdmap)[g].cmd_idx,
         gcmd_num |-> g,
         cmd |-> CmdIndex(cmdmap)[g].cmd]]

\* 'Commands run:', one line per command, a blank line
LegendLines(cmd_map, color) ==
    IF cmd_map = <<>> THEN <<>>
    ELSE << IF color THEN _escaped_with(<<"C", "o", "m", "m", "a", "n", "d", "s", " ", "r", "u", "n", ":">>, fg_white) ELSE <<"C", "o", "m", "m", "a", "n", "d", "s", " ", "r", "u", "n", ":">> >>
         \o [g \in DOMAIN cmd_map |->
                <<" ", " ">> \o PadLeft(NatStr(cmd_map[g].gcmd_num), 4)
                \o <<".", " ">> \o CommandText(cmd_map[g].cmd)]
         \o << <<>> >>

ResultsLine(color) ==
    IF color THEN _escaped_with(<<"R", "e", "s", "u", "l", "t", "s", ":">>, fg_white) ELSE <<"R", "e", "s", "u", "l", "t", "s", ":">>

\* One-line mode's '{:^5s}'.format('[{}]'.format(retval)), coloured by result
RetvalCell(retval, color) ==
    LET formatted_string == Centered(<<"[">> \o IntStr(retval) \o <<"]">>, 5)
    IN  IF ~color THEN formatted_string
        ELSE _escaped_with(formatted_string, IF retval = 0 THEN fg_green ELSE fg_red)

\* text.split('\n', 1)[0]
BeforeNewline(text) ==
    LET nls == {i \in DOMAIN text : text[i] = "\n"}
    IN  IF nls = {} THEN text ELSE SubSeq(text, 1, Min(nls) - 1)

\* One row per server, sorted by server name: the name right-aligned, one
\* cell per collected command in ascending number, the first line of the
\* stdout of command 1.
OneLineRows(outputs, color) ==
    LET names == SortedStrs(DOMAIN outputs)
        widest_server == Max({Len(s) : s \in DOMAIN outputs})
        row(s) ==
            LET nums == SortedInts(DOMAIN outputs[s])
            IN  PadLeft(s, widest_server + 4) \o <<":", " ", " ">>
                \o Flatten([k \in DOMAIN nums |->
                              RetvalCell(outputs[s][nums[k]]["retval"][1], color)])
                \o <<" ", " ">> \o BeforeNewline(outputs[s][1]["stdout"][1])
    IN  [i \in DOMAIN names |-> row(names[i])]

\* '[RETVAL={}]'.format(retval), coloured by result
_format_retval(retval, color) ==
    LET formatted_string == <<"[", "R", "E", "T", "V", "A", "L", "=">> \o IntStr(retval) \o <<"]">>
    IN  IF ~color THEN formatted_string
        ELSE _escaped_with(formatted_string, IF retval = 0 THEN fg_green ELSE fg_red)

\* "      cmd#{:<4d} {:12s} (l#:{}/{}) $ {}" and its srv# counterpart
UnitHeader(label, num, cmdres, color, sep, tail) ==
    <<" ", " ", " ", " ", " ", " ">> \o label \o PadRight(IntStr(num), 4) \o <<" ">>
    \o PadRight(_format_retval(cmdres["retval"][1], color), 12)
    \o <<" ", "(", "l", "#", ":">> \o IntStr(cmdres["stderr"][2]) \o <<"/">>
    \o IntStr(cmdres["stdout"][2]) \o <<")", " ", sep, " ">> \o tail

\* cmds_by_num[cmd_num]: a later entry of the same number replaces an earlier
CmdsByNum(cmd_map, cmd_num) ==
    LET gs == {g \in DOMAIN cmd_map : cmd_map[g].gcmd_num = cmd_num}
    IN  CommandText(cmd_map[Max(gs)].cmd)

\* The execution units in the order the grouped mode renders them: servers
\* by name, the commands of each by number.
GroupedUnits(outputs) ==
    LET names == SortedStrs(DOMAIN outputs)
    IN  Flatten([i \in DOMAIN names |->
            LET nums == SortedInts(DOMAIN outputs[names[i]])
            IN  [k \in DOMAIN nums |->
                    [srv |-> names[i], srv_num |-> i, cmd_num |-> nums[k]]]])

\* cmds_by_num[cmd_num] raises KeyError for a number the legend lacks.
GroupedRaises(outputs, cmd_map) ==
    \E s \in DOMAIN outputs : \E c \in DOMAIN outputs[s] :
        \A g \in DOMAIN cmd_map : cmd_map[g].gcmd_num # c

GroupedLinesOf(units, outputs, cmd_map, color, long_output, term_lines) ==
    LET first(j) == j = 1 \/ units[j - 1].srv # units[j].srv
    IN  Flatten([j \in DOMAIN units |->
            LET u == units[j]
                cmdres == outputs[u.srv][u.cmd_num]
            IN  (IF first(j)
                 THEN << <<" ", " ", "s", "r", "v", "#">> \o PadRight(IntStr(u.srv_num), 4)
                         \o <<"-", " ">> \o u.srv >>
                 ELSE <<>>)
                \o << UnitHeader(<<"c", "m", "d", "#">>, u.cmd_num, cmdres, color, "$",
                                 CmdsByNum(cmd_map, u.cmd_num)) >>
                \o _std_streams_lines(cmdres, long_output, term_lines)])

GroupedLines(outputs, cmd_map, color, long_output, term_lines) ==
    GroupedLinesOf(GroupedUnits(outputs), outputs, cmd_map, color, long_output,
                   term_lines)

\* outputs_by_num[cmd_num]: the servers that have a result for the number
OutputsByNum(outputs, cmd_num) == {s \in DOMAIN outputs : cmd_num \in DOMAIN outputs[s]}

\* The execution units in the order the transposed mode renders them: the
\* commands of the legend in order, the servers of each by name.
TransposedUnits(outputs, cmd_map) ==
    Flatten([g \in DOMAIN cmd_map |->
        LET names == SortedStrs(OutputsByNum(outputs, cmd_map[g].gcmd_num))
        IN  [i \in DOMAIN names |->
                [srv |-> names[i], srv_num |-> i, cmd_num |-> cmd_map[g].gcmd_num,
                 g |-> g]]])

\* outputs_by_num.get(gcmd_num, []) gives a list for a command no server has
\* a result for, and [].items() raises AttributeError.
TransposedRaises(outputs, cmd_map) ==
    \E g \in DOMAIN cmd_map : OutputsByNum(outputs, cmd_map[g].gcmd_num) = {}

TransposedLines(outputs, cmd_map, color, long_output, term_lines) ==
    Flatten([g \in DOMAIN cmd_map |->
        LET names == SortedStrs(OutputsByNum(outputs, cmd_map[g].gcmd_num))
        IN  << <<" ", " ", "c", "m", "d", "#">> \o PadRight(IntStr(cmd_map[g].gcmd_num), 4)
               \o <<"$", " ">> \o CommandText(cmd_map[g].cmd) >>
            \o Flatten([i \in DOMAIN names |->
                LET srvres == outputs[names[i]][cmd_map[g].gcmd_num]
                IN  << UnitHeader(<<"s", "r", "v", "#">>, i, srvres, color, "-",
                                  names[i]) >>
                    \o _std_streams_lines(srvres, long_output, term_lines)])])

\* The width policy on every line of the report
ShortenedAll(lines, term_columns, color) ==
    [i \in DOMAIN lines |-> PrintedLine(lines[i], term_columns, color)]

\* The lines print_execution_results prints after the time header (which
\* shows the clock and the colour flag only), or the exception it raises.
\* f holds the display flags, e the terminal and the environment.
print_execution_results(outputs, cmdmap, f, e) ==
    LET size == _get_terminal_size(e)
        wide_output == f.wide_output \/ size.term_columns = <<>>
        long_output == f.long_output \/ size.term_lines = <<>>
        term_columns == IF size.term_columns = <<>> THEN 0 ELSE size.term_columns[1]
        term_lines == IF size.term_lines = <<>> THEN 0 ELSE size.term_lines[1]
        cmd_map == CmdMap(cmdmap)
        head == LegendLines(cmd_map, f.color) \o <<ResultsLine(f.color)>>
        output_lines ==
            head \o
            (IF f.one_line THEN OneLineRows(outputs, f.color)
             ELSE IF f.transpose_output
             THEN TransposedLines(outputs, cmd_map, f.color, long_output, term_lines)
             ELSE GroupedLines(outputs, cmd_map, f.color, long_output, term_lines))
    IN  IF ~f.one_line /\ f.transpose_output /\ TransposedRaises(outputs, cmd_map)
        THEN Raised("AttributeError")
        ELSE IF ~f.one_line /\ ~f.transpose_output /\ GroupedRaises(outputs, cmd_map)
        THEN Raised("KeyError")
        ELSE Returned(IF wide_output THEN output_lines
                      ELSE ShortenedAll(output_lines, term_columns, f.color))

-----------------------------------------------------------------------------
(* redirect_streams *)

\* (srv, cmd_num, stream) of every stderr and stdout file the globs find,
\* and the key the tuples are sorted by
StreamTuples(dir) ==
    { [srv |-> RSplit2(n)[1], cmd_num |-> RSplit2(n)[2], stream |-> RSplit2(n)[3][1],
       fpath |-> n] : n \in Glob(dir, "stderr") \cup Glob(dir, "stdout") }

TupleLess(a, b, transpose_output) ==
    LET a1 == IF transpose_output THEN a.cmd_num ELSE a.srv
        a2 == IF transpose_output THEN a.srv ELSE a.cmd_num
        b1 == IF transpose_output THEN b.cmd_num ELSE b.srv
        b2 == IF transpose_output THEN b.srv ELSE b.cmd_num
    IN  \/ StrLess(a1, b1)
        \/ a1 = b1 /\ StrLess(a2, b2)
        \/ a1 = b1 /\ a2 = b2 /\ a.stream = "stderr" /\ b.stream = "stdout"

RECURSIVE SortedTuples(_, _)
SortedTuples(S, transpose_output) ==
    IF S = {} THEN <<>>
    ELSE LET first == CHOOSE x \in S : \A y \in S \ {x} : TupleLess(x, y, transpose_output)
         IN  <<first>> \o SortedTuples(S \ {first}, transpose_output)

\* retvals[(srv, cmd_num)] for the retval files the glob finds
RetvalOf(dir, srv, cmd_num) ==
    LET fs == {n \in Glob(dir, "retval") :
                  RSplit2(n)[1] = srv /\ RSplit2(n)[2] = cmd_num}
    IN  _read_int_from_file(dir[CHOOSE n \in fs : TRUE]).value

EmptyOutput == <<"<", "E", "M", "P", "T", "Y", " ", "O", "U", "T", "P", "U", "T", ">">>

MultiplexingNotice == "already exists, disabling multiplexing"

\* '{}:\t{}'.format(srv, text)
LineFormat(srv, text) == srv \o <<":", "\t">> \o text

\* One write to a standard stream; unit names the file it came from.
Write(t, text) ==
    [stream |-> t.stream, text |-> text, unit |-> <<t.srv, t.cmd_num>>]

\* The writes of the non-quiet loop from the i-th tuple on; no_stderr holds
\* the (srv, cmd_num) keys whose stderr file was empty, srv as shown.
RECURSIVE PrefixedWrites(_, _, _, _, _)
PrefixedWrites(dir, tuples, i, no_stderr, color) ==
    IF i > Len(tuples) THEN <<>>
    ELSE
    LET t == tuples[i]
        srv == IF ~color THEN t.srv
               ELSE IF RetvalOf(dir, t.srv, t.cmd_num) = 0
               THEN _escaped_with(t.srv, fg_green)
               ELSE _escaped_with(t.srv, fg_red)
        lines == LinesOf(dir[t.fpath])
        kept == SelectSeq(lines, LAMBDA l :
                    ~(l[1] = "ControlSocket "
                      /\ \E k \in DOMAIN l : l[k] = MultiplexingNotice))
    IN  IF t.stream = "stderr" /\ dir[t.fpath] = <<>>
        THEN PrefixedWrites(dir, tuples, i + 1, no_stderr \cup {<<srv, t.cmd_num>>}, color)
        ELSE IF t.stream = "stdout" /\ dir[t.fpath] = <<>>
        THEN (IF <<srv, t.cmd_num>> \in no_stderr
              THEN << Write(t, LineFormat(srv, IF color
                                               THEN _escaped_with(EmptyOutput, fg_yellow)
                                               ELSE EmptyOutput) \o <<"\n">>) >>
              ELSE <<>>)
             \o PrefixedWrites(dir, tuples, i + 1, no_stderr, color)
        ELSE IF t.stream = "stderr"
        THEN [k \in DOMAIN kept |->
                Write(t, LineFormat(srv, IF color THEN _escaped_with(kept[k], fg_red)
                                         ELSE kept[k]))]
             \o PrefixedWrites(dir, tuples, i + 1, no_stderr, color)
        ELSE [k \in DOMAIN lines |-> Write(t, LineFormat(srv, lines[k]))]
             \o PrefixedWrites(dir, tuples, i + 1, no_stderr, color)

\* A variant whose quiet branch is taken only without colour
redirect_streams_colour_first(dir, quiet, transpose_output, color) ==
    LET tuples == SortedTuples(StreamTuples(dir), transpose_output)
    IN  IF quiet /\ ~color
        THEN SelectSeq([i \in DOMAIN tuples |-> Write(tuples[i], dir[tuples[i].fpath])],
                       LAMBDA w : w.text # <<>>)
        ELSE PrefixedWrites(dir, tuples, 1, {}, color)

\* What redirect_streams writes: with quiet every file copied as it is, in
\* the sorted order; otherwise the prefixed lines.
redirect_streams(dir, quiet, transpose_output, color) ==
    LET tuples == SortedTuples(StreamTuples(dir), transpose_output)
    IN  IF quiet
        THEN SelectSeq([i \in DOMAIN tuples |-> Write(tuples[i], dir[tuples[i].fpath])],
                       LAMBDA w : w.text # <<>>)
        ELSE PrefixedWrites(dir, tuples, 1, {}, color)

-----------------------------------------------------------------------------
(* run_poh *)

\* What run_poh shows for the artifacts remote_execute left in dir: the
\* writes of redirect_streams, or the lines print_execution_results prints
\* for what read_result_files collected, or the exception that ends it.
RunOutput(dir, cmdmap, f, e) ==
    IF f.raw_output \/ f.quiet_output
    THEN Returned(redirect_streams(dir, f.quiet_output, f.transpose_output, f.color))
    ELSE LET outputs == read_result_files(dir, f.one_line)
         IN  IF outputs.raised # "none" THEN outputs
             ELSE print_execution_results(outputs.value, cmdmap, f, e)

\* A line print() writes
Printed(line) == [stream |-> "stdout", text |-> line, unit |-> <<>>]

PrintedAll(lines) == [i \in DOMAIN lines |-> Printed(lines[i])]

\* raw_output or quiet_output: redirect_streams consumes the artifacts.
RedirectStreams ==
    /\ pc = "returned"
    /\ flags.raw_output \/ flags.quiet_output
    /\ ran' = ran \cup {"redirect_streams"}
    /\ shown' = shown \o redirect_streams(disk, flags.quiet_output,
                                          flags.transpose_output, flags.color)
    /\ pc' = "done"
    /\ UNCHANGED <<env, outdir, servers, commands, flags, exc, handles, result_files, child_procs,
                   nwaited, proc, rvbuf, disk, results, arg, ret>>

\* outputs = read_result_files(output_dir, one_line)
ReadResultFiles ==
    /\ pc = "returned"
    /\ ~(flags.raw_output \/ flags.quiet_output)
    /\ ran' = ran \cup {"read_result_files"}
    /\ LET r == read_result_files(disk, flags.one_line)
       IN  IF r.raised = "none"
           THEN results' = r.value /\ pc' = "print" /\ exc' = exc
           ELSE results' = results /\ pc' = "raised" /\ exc' = r.raised
    /\ UNCHANGED <<env, outdir, shown, servers, commands, flags, handles, result_files, child_procs,
                   nwaited, proc, rvbuf, disk, arg, ret>>

\* print_execution_results(outputs, commands, ...)
PrintExecutionResults ==
    /\ pc = "print"
    /\ ran' = ran \cup {"print_execution_results"}
    /\ \E r \in {print_execution_results(results, commands, flags, env)} :
           IF r.raised = "none"
           THEN /\ shown' = shown \o PrintedAll(r.value)
                /\ pc' = "done"
                /\ exc' = exc
           ELSE /\ shown' = shown
                /\ pc' = "raised"
                /\ exc' = r.raised
    /\ UNCHANGED <<env, outdir, servers, commands, flags, handles, result_files, child_procs,
                   nwaited, proc, rvbuf, disk, results, arg, ret>>

-----------------------------------------------------------------------------
(* run_poh: the end of the run *)

\* A variant that refuses whenever rmtree does not say it is safe
_remove_output_dir_unless_safe(e) ==
    [removed |-> e.rmtree = "safe",
     warned |-> FALSE,
     error_shown |-> e.rmtree # "safe"]

\* _remove_output_dir: whether rmtree is called, whether the Python 2 warning
\* is issued, and whether the 'Not removing temp directory' error is shown.
_remove_output_dir(e) ==
    LET no_attribute == e.rmtree = "unknown"
        poh_ignore_py2_warns ==
            IF e.POH_IGNORE_PY2_WARNS # None THEN e.POH_IGNORE_PY2_WARNS
            ELSE <<"n", "o">>
        error_out_on_remove ==
            IF no_attribute THEN FALSE ELSE e.rmtree # "safe"
    IN  [removed |-> ~error_out_on_remove,
         warned |-> no_attribute /\ poh_ignore_py2_warns = <<"n", "o">>,
         error_shown |-> error_out_on_remove]

\* keep_output as run_poh uses it: set when an output_dir was given
KeepOutputSet == flags.keep_output \/ flags.output_dir_given

\* if keep_output: print where the output is
KeepOutput ==
    /\ pc = "done"
    /\ KeepOutputSet
    /\ shown' = shown \o <<Printed(<<"\n", "Output located at: ", "output_dir">>)>>
    /\ pc' = "ended"
    /\ UNCHANGED <<env, outdir, servers, commands, flags, exc, handles, result_files,
                   child_procs, nwaited, proc, rvbuf, disk, results, ran, arg, ret>>

\* else: _remove_output_dir(output_dir)
RemoveOutputDir ==
    /\ pc = "done"
    /\ ~KeepOutputSet
    /\ \E r \in {_remove_output_dir(env)} :
        /\ outdir' = IF r.removed THEN "removed" ELSE outdir
        /\ disk' = IF r.removed THEN <<>> ELSE disk
        /\ ran' = ran \cup {"_remove_output_dir"}
                      \cup (IF r.removed THEN {"shutil.rmtree"} ELSE {})
                      \cup (IF r.warned THEN {"warnings.warn"} ELSE {})
                      \cup (IF r.error_shown THEN {"_show_error_messages"} ELSE {})
    /\ pc' = "ended"
    /\ UNCHANGED <<env, shown, servers, commands, flags, exc, handles, result_files,
                   child_procs, nwaited, proc, rvbuf, results, arg, ret>>

NoArg == [kind |-> "none"]

Pending == [raised |-> "pending", value |-> None]

\* run_poh is entered with a fresh output directory.
Init ==
    /\ servers \in ServerLists
    /\ commands \in CommandMaps
    /\ Len(servers) * Len(Chain(commands)) <= MaxUnits
    /\ flags \in FlagSets
    /\ pc = "start"
    /\ exc = "none"
    /\ handles = <<>>
    /\ result_files = <<>>
    /\ child_procs = <<>>
    /\ nwaited = 0
    /\ proc = [i \in DOMAIN RunQueue |-> NoProc]
    /\ rvbuf = <<>>
    /\ disk = <<>>
    /\ results = None
    /\ ran = {}
    /\ arg = NoArg
    /\ ret = Pending
    /\ env = DefaultEnv
    /\ outdir = "present"
    /\ shown = <<>>

Next ==
    \/ StartUnit
    \/ StartUnitOpenFails
    \/ StartUnitPopenFails
    \/ ChildExits
    \/ WaitUnit
    \/ WaitRaises
    \/ Finally
    \/ RedirectStreams
    \/ ReadResultFiles
    \/ PrintExecutionResults

Spec == Init /\ [][Next]_vars

\* The whole of run_poh, for small runs on every platform and with every
\* retention setting
RunFlagSets ==
    {f \in AllFlags :
        \A k \in DOMAIN f \ {"raw_output", "keep_output", "output_dir_given"} : ~f[k]}

InitRun ==
    /\ servers \in ServerLists
    /\ commands \in CommandMaps
    /\ Len(servers) * Len(Chain(commands)) <= MaxRunUnits
    /\ flags \in RunFlagSets
    /\ pc = "start"
    /\ exc = "none"
    /\ handles = <<>>
    /\ result_files = <<>>
    /\ child_procs = <<>>
    /\ nwaited = 0
    /\ proc = [i \in DOMAIN RunQueue |-> NoProc]
    /\ rvbuf = <<>>
    /\ disk = <<>>
    /\ results = None
    /\ ran = {}
    /\ arg = NoArg
    /\ ret = Pending
    /\ env \in CleanupEnvs
    \* the variable is read only where rmtree lacks the attribute
    /\ env.rmtree # "unknown" => env.POH_IGNORE_PY2_WARNS = None
    \* and rmtree is looked at only where nothing is to be kept
    /\ (flags.keep_output \/ flags.output_dir_given) => env = DefaultEnv
    /\ outdir = "present"
    /\ shown = <<>>

NextRun ==
    \/ Next
    \/ KeepOutput
    \/ RemoveOutputDir

SpecRun == InitRun /\ [][NextRun]_vars

-----------------------------------------------------------------------------
(* Claims about remote_execute and run_poh, under Spec *)

NumServers == Len(servers)

NumCommands == Len(Chain(commands))

\* remote_execute has been left without an exception
ReturnedNormally == pc \in {"returned", "print", "done"} /\ exc = "none"

\* remote_execute has been left, normally or not
LeftRemoteExecute == pc \in {"returned", "raised", "print", "done"}

RetvalText(i) == IntStr(proc[i].returncode) \o <<"\n">>

\* An exit code has been written for unit i (to its handle or to its file)
Written(i) ==
    LET rvfile == UnitPaths(i)[1]
    IN  rvfile \in DOMAIN disk /\ (rvbuf[rvfile] # <<>> \/ disk[rvfile] # <<>>)

Quiescent ==
    /\ \A i \in DOMAIN RunQueue :
          /\ proc[i].state = "exited"
          /\ UnitPaths(i)[1] \in DOMAIN disk
          /\ disk[UnitPaths(i)[1]] = RetvalText(i)
    /\ \A n \in DOMAIN handles : handles[n] = "closed"

C3_StartAllThenWaitInOrder ==
    /\ (pc = "wait" \/ nwaited > 0 \/ \E i \in DOMAIN RunQueue : Written(i)) =>
          /\ Len(child_procs) = NumServers * NumCommands
          /\ \A i \in DOMAIN RunQueue : proc[i].state # "none"
    /\ \A j \in DOMAIN child_procs : child_procs[j] = j
    /\ \A i \in DOMAIN RunQueue : Written(i) <=> i <= nwaited
    /\ \A i \in DOMAIN RunQueue :
          Written(i) => /\ proc[i].state = "exited"
                        /\ rvbuf[UnitPaths(i)[1]] \o disk[UnitPaths(i)[1]] = RetvalText(i)
    /\ \A i, j \in DOMAIN RunQueue :
          (i < j /\ proc[i].state = "running") => ~Written(j)

C3_Witness ==
    /\ pc = "wait"
    /\ Len(RunQueue) >= 3
    /\ proc[1].state = "running"
    /\ proc[2].state = "exited"
    /\ proc[3].state = "exited"
    /\ ~Written(2)

\* C4: whenever remote_execute has been left, normally or by an exception,
\* every artifact handle that open() returned is closed.
C4_EveryOpenedHandleClosed ==
    LeftRemoteExecute => \A n \in DOMAIN handles : handles[n] = "closed"

\* C5: once starting a process has failed, the error leaves remote_execute and
\* run_poh: the failed unit's artifacts were opened once and no later unit
\* was touched, no process beyond those of child_procs exists, and no
\* consumer of the artifacts runs.
C5_StartFailureAborts ==
    exc = "OSError" =>
        /\ pc \in {"finally", "raised"}
        /\ ran = {}
        /\ results = None
        /\ Len(result_files) = 3 * (Len(child_procs) + 1)
        /\ DOMAIN handles = {result_files[j] : j \in DOMAIN result_files}
        /\ \A i \in DOMAIN RunQueue : i > Len(child_procs) => proc[i].state = "none"

C5_Witness ==
    /\ exc = "OSError"
    /\ pc = "raised"
    /\ Len(child_procs) >= 1
    /\ Len(child_procs) + 1 < Len(RunQueue)

-----------------------------------------------------------------------------
(* The collector after a complete dispatch: SpecCollect *)

\* What remote_execute leaves behind when it returns normally (the steps of
\* StartUnit, ChildExits, WaitUnit and Finally without the interleaving, every
\* commands behaving as one of OutcomePatterns): the state C1_CompleteTriples
\* describes.
RemoteExecuteReturns ==
    /\ pc = "start"
    /\ \E os \in OutcomePatterns(Len(RunQueue)) :
        /\ proc' = [i \in DOMAIN RunQueue |->
                      [state |-> "exited", returncode |-> os[i].rc]]
        /\ disk' = [n \in {UnitPaths(i)[k] : i \in DOMAIN RunQueue, k \in 1..3} |->
                      LET ft == n[Len(n)]
                          o == os[CHOOSE i \in DOMAIN RunQueue :
                                     \E k \in 1..3 : UnitPaths(i)[k] = n]
                      IN  IF ft = "retval" THEN IntStr(o.rc) \o <<"\n">>
                          ELSE IF ft = "stdout" THEN o.out
                          ELSE o.err]
    /\ handles' = [n \in {UnitPaths(i)[k] : i \in DOMAIN RunQueue, k \in 1..3} |-> "closed"]
    /\ rvbuf' = [n \in {UnitPaths(i)[k] : i \in DOMAIN RunQueue, k \in 1..3} |-> <<>>]
    /\ result_files' = [j \in 1..(3 * Len(RunQueue)) |->
                          UnitPaths(((j - 1) \div 3) + 1)[((j - 1) % 3) + 1]]
    /\ child_procs' = [j \in DOMAIN RunQueue |-> j]
    /\ nwaited' = Len(RunQueue)
    /\ pc' = "returned"
    /\ UNCHANGED <<env, outdir, shown, servers, commands, flags, exc, results, ran, arg, ret>>

\* No terminal on stdout and no COLUMNS or LINES, or a narrow and low terminal
DisplayEnvs ==
    {DefaultEnv, [DefaultEnv EXCEPT !.winsize = <<MaxLimit, MaxColumns>>]}

InitCollect ==
    /\ servers \in ServerLists
    /\ commands \in { << [src |-> "None", cmds |-> CmdList("None", n)] >> :
                        n \in 1..MaxCollectCmds }
    /\ Len(servers) * Len(Chain(commands)) <= MaxCollectCmds
    /\ flags \in FlagSets
    /\ pc = "start"
    /\ exc = "none"
    /\ handles = <<>>
    /\ result_files = <<>>
    /\ child_procs = <<>>
    /\ nwaited = 0
    /\ proc = [i \in DOMAIN RunQueue |-> NoProc]
    /\ rvbuf = <<>>
    /\ disk = <<>>
    /\ results = None
    /\ ran = {}
    /\ arg = NoArg
    /\ ret = Pending
    /\ env \in DisplayEnvs
    /\ outdir = "present"
    /\ shown = <<>>

NextCollect ==
    \/ RemoteExecuteReturns
    \/ RedirectStreams
    \/ ReadResultFiles
    \/ PrintExecutionResults

SpecCollect == InitCollect /\ [][NextCollect]_vars

\* The same steps for every source order and every display flag
InitRender ==
    /\ servers \in ServerLists
    /\ commands \in CommandMaps \cup CommandMapsNoneLast
    /\ Len(servers) * Len(Chain(commands)) <= MaxUnits
    /\ flags \in DisplayFlagSets
    /\ pc = "start"
    /\ exc = "none"
    /\ handles = <<>>
    /\ result_files = <<>>
    /\ child_procs = <<>>
    /\ nwaited = 0
    /\ proc = [i \in DOMAIN RunQueue |-> NoProc]
    /\ rvbuf = <<>>
    /\ disk = <<>>
    /\ results = None
    /\ ran = {}
    /\ arg = NoArg
    /\ ret = Pending
    /\ env \in DisplayEnvs
    \* a terminal matters to the report only, and long_output and
    \* wide_output only where there is a terminal
    /\ env = DefaultEnv =>
           ~flags.long_output /\ ~flags.wide_output
    /\ env # DefaultEnv => ~flags.color
    /\ (flags.raw_output \/ flags.quiet_output) => env = DefaultEnv
    /\ outdir = "present"
    /\ shown = <<>>

SpecRender == InitRender /\ [][NextCollect]_vars

\* C6: for every number of commands, read_result_files run after a normal
\* remote_execute returns an entry for every dispatched (server, command
\* number) pair, with a value other than None for retval, stdout and stderr.
C6_EveryUnitCollected ==
    ("read_result_files" \in ran /\ exc = "none") =>
        \A i \in DOMAIN RunQueue :
            LET s == RunQueue[i].server
                c == RunQueue[i].cmd_num
            IN  /\ s \in DOMAIN results
                /\ c \in DOMAIN results[s]
                /\ \A k \in 1..3 : results[s][c][FileTypes[k]] # None

-----------------------------------------------------------------------------
(* Single functions on drawn inputs: SpecFilter, SpecReadInt, SpecShorten *)

\* No run is in progress.
NoRun ==
    /\ servers = <<>>
    /\ commands = <<>>
    /\ flags = DefaultFlags
    /\ exc = "none"
    /\ handles = <<>>
    /\ result_files = <<>>
    /\ child_procs = <<>>
    /\ nwaited = 0
    /\ proc = <<>>
    /\ rvbuf = <<>>
    /\ disk = <<>>
    /\ results = None
    /\ ran = {}
    /\ outdir = "present"
    /\ shown = <<>>

StderrAlphabet == {"ControlSocket ", "e", "\n"}

IntAlphabet == {"0", "7", "-", "x", " ", "\n"}

LineAlphabet == {"a", ESC, "[", "m"}

InitFilter ==
    /\ NoRun
    /\ env = DefaultEnv
    /\ pc = "call"
    /\ arg \in [kind : {"stderr"}, content : SeqsUpTo(StderrAlphabet, MaxTextLen),
                one_line : BOOLEAN]
    /\ ret = Pending

\* read_result_files' handling of one stderr file
CollectStderr ==
    /\ pc = "call"
    /\ arg.kind = "stderr"
    /\ ret' = Returned(ReadArtifact(arg.content, "stderr", arg.one_line)[1])
    /\ pc' = "computed"
    /\ UNCHANGED <<env, outdir, shown, servers, commands, flags, exc, handles, result_files, child_procs,
                   nwaited, proc, rvbuf, disk, results, ran, arg>>

SpecFilter == InitFilter /\ [][CollectStderr]_vars

InitReadInt ==
    /\ NoRun
    /\ env = DefaultEnv
    /\ pc = "call"
    /\ arg \in [kind : {"retval"}, content : SeqsUpTo(IntAlphabet, MaxFileLen)]
    /\ ret = Pending

\* _read_int_from_file on an existing file
ReadIntFromFile ==
    /\ pc = "call"
    /\ arg.kind = "retval"
    /\ ret' = _read_int_from_file(arg.content)
    /\ pc' = "computed"
    /\ UNCHANGED <<env, outdir, shown, servers, commands, flags, exc, handles, result_files, child_procs,
                   nwaited, proc, rvbuf, disk, results, ran, arg>>

SpecReadInt == InitReadInt /\ [][ReadIntFromFile]_vars

InitShorten ==
    /\ NoRun
    /\ env = DefaultEnv
    /\ pc = "call"
    /\ arg \in [kind : {"line"}, line : SeqsUpTo(LineAlphabet, MaxLineLen),
                term_columns : 1..MaxWidth, color : BOOLEAN]
    /\ ret = Pending

\* The width policy of print_execution_results on one rendered line, with
\* wide_output off
ShortenLine ==
    /\ pc = "call"
    /\ arg.kind = "line"
    /\ ret' = Returned(PrintedLine(arg.line, arg.term_columns, arg.color))
    /\ pc' = "computed"
    /\ UNCHANGED <<env, outdir, shown, servers, commands, flags, exc, handles, result_files, child_procs,
                   nwaited, proc, rvbuf, disk, results, ran, arg>>

SpecShorten == InitShorten /\ [][ShortenLine]_vars

StreamAlphabet == {"a", "\n"}

InitStreams ==
    /\ NoRun
    /\ env = DefaultEnv
    /\ pc = "call"
    /\ arg \in [kind : {"streams"},
                stdout : SeqsUpTo(StreamAlphabet, MaxStreamLen),
                stderr : SeqsUpTo(StreamAlphabet, MaxStreamLen),
                long_output : BOOLEAN, limit_lines : 0..MaxLimit]
    /\ ret = Pending

\* _std_streams_lines on what read_result_files stores for the two files
StdStreamsLines ==
    /\ pc = "call"
    /\ arg.kind = "streams"
    /\ ret' = Returned(_std_streams_lines(
                  [ft \in {"stdout", "stderr"} |-> ReadArtifact(arg[ft], ft, FALSE)],
                  arg.long_output, arg.limit_lines))
    /\ pc' = "computed"
    /\ UNCHANGED <<env, outdir, shown, servers, commands, flags, exc, handles,
                   result_files, child_procs, nwaited, proc, rvbuf, disk, results,
                   ran, arg>>

SpecStreams == InitStreams /\ [][StdStreamsLines]_vars

\* The values COLUMNS and LINES may hold: unset, not a number, a number
EnvironValues == {None, <<"x">>} \cup {NatStr(n) : n \in 0..MaxTerm}

\* The terminals and environments _get_terminal_size may meet
TermEnvs ==
    { [DefaultEnv EXCEPT !.winsize = w, !.COLUMNS = c, !.LINES = l] :
        w \in {None} \cup ((0..MaxTerm) \X (0..MaxTerm)),
        c \in EnvironValues, l \in EnvironValues }

InitTermSize ==
    /\ NoRun
    /\ env \in TermEnvs
    /\ pc = "call"
    /\ arg = [kind |-> "fd"]
    /\ ret = Pending

GetTerminalSize ==
    /\ pc = "call"
    /\ arg.kind = "fd"
    /\ ret' = Returned(_get_terminal_size(env))
    /\ pc' = "computed"
    /\ UNCHANGED <<env, outdir, shown, servers, commands, flags, exc, handles,
                   result_files, child_procs, nwaited, proc, rvbuf, disk, results,
                   ran, arg>>

SpecTermSize == InitTermSize /\ [][GetTerminalSize]_vars

-----------------------------------------------------------------------------
(* Claims about single functions *)

RECURSIVE DropControlSocketLines(_)
DropControlSocketLines(lines) ==
    IF lines = <<>> THEN <<>>
    ELSE (IF Head(lines)[1] = "ControlSocket " THEN <<>> ELSE Head(lines))
         \o DropControlSocketLines(Tail(lines))

\* C7: the stderr text read_result_files returns (whole-file reading) is the
\* captured text without its lines that start with 'ControlSocket ', wherever
\* they stand, every other line kept unchanged and in order.
C7_ControlSocketLinesDeleted ==
    (pc = "computed" /\ arg.kind = "stderr" /\ ~arg.one_line) =>
        ret.value = DropControlSocketLines(LinesOf(arg.content))

\* The first line of a file, without its newline
FirstLineText(content) ==
    LET line == _read_one_line(content)
    IN  IF line # <<>> /\ line[Len(line)] = "\n"
        THEN SubSeq(line, 1, Len(line) - 1) ELSE line

RECURSIVE Pow10(_)
Pow10(n) == IF n = 0 THEN 1 ELSE 10 * Pow10(n - 1)

RECURSIVE SumOver(_, _, _)
SumOver(ds, I, acc) ==
    IF I = {} THEN acc
    ELSE LET i == CHOOSE j \in I : TRUE
         IN  SumOver(ds, I \ {i}, acc + DigitValue(ds[i]) * Pow10(Len(ds) - i))

\* The text is a decimal integer: blanks, an optional sign, digits, blanks
IsIntegerText(t) ==
    \E a \in 1..Len(t), b \in 1..Len(t) :
        /\ a <= b
        /\ \A i \in 1..(a - 1) : t[i] = " "
        /\ \A i \in (b + 1)..Len(t) : t[i] = " "
        /\ \/ \A i \in a..b : IsDigit(t[i])
           \/ a < b /\ t[a] \in {"-", "+"} /\ \A i \in (a + 1)..b : IsDigit(t[i])

IntegerOf(t) ==
    LET ds == SelectSeq(t, IsDigit)
        magnitude == SumOver(ds, DOMAIN ds, 0)
    IN  IF \E i \in DOMAIN t : t[i] = "-" THEN 0 - magnitude ELSE magnitude

\* C8: _read_int_from_file does not raise: it returns the integer written on
\* the file's first line, and -1 when the first line is not an integer (text
\* that is no number, an empty line, an empty file).
C8_ReadIntNeverRaises ==
    (pc = "computed" /\ arg.kind = "retval") =>
        /\ ret.raised = "none"
        /\ ret.value = IF IsIntegerText(FirstLineText(arg.content))
                       THEN IntegerOf(FirstLineText(arg.content))
                       ELSE -1

C8_Witness ==
    /\ pc = "computed"
    /\ arg.kind = "retval"
    /\ arg.content = <<"x", "\n", "7">>
    /\ ret.raised = "none"
    /\ ret.value = -1

\* C9: without color and without wide-output, a line longer than the width W
\* is printed as its first W-3 characters followed by '...', W characters in
\* all, and a line of at most W characters is printed unchanged.
C9_TruncatedToWidth ==
    (pc = "computed" /\ arg.kind = "line" /\ ~arg.color) =>
        IF Len(arg.line) > arg.term_columns
        THEN /\ ret.value = SubSeq(arg.line, 1, arg.term_columns - 3) \o Ellipsis
             /\ Len(ret.value) = arg.term_columns
        ELSE ret.value = arg.line

\* The characters of a line that are outside its escape sequences
VisibleLen(line) == Len(line) - EscapedCharsNum(line)

\* C10: with color and without wide-output, the printed line has at most W
\* visible characters wherever its escape sequences stand, and a line with
\* at most W visible characters is printed unchanged.  Stated for the widths
\* that leave room for the three-character ellipsis (W >= 3), so that a
\* violation is one of the escape sequences' position alone.
C10_VisibleWithinWidth ==
    (pc = "computed" /\ arg.kind = "line" /\ arg.color /\ arg.term_columns >= 3) =>
        /\ VisibleLen(ret.value) <= arg.term_columns
        /\ VisibleLen(arg.line) <= arg.term_columns => ret.value = arg.line

-----------------------------------------------------------------------------
(* Claims about _std_streams_lines, under SpecStreams *)

\* The lines of a rendered body that carry the prefix of one stream
MarkedLines(body, mark) ==
    SelectSeq(body, LAMBDA l : Len(l) >= 8 /\ SubSeq(l, 1, 8) = StreamPrefix(mark))

\* The last n elements of a sequence (all of them when it has fewer)
LastN(seq, n) == SubSeq(seq, Max({Len(seq) - n, 0}) + 1, Len(seq))

Prefixed(mark, lines) == [i \in DOMAIN lines |-> StreamPrefix(mark) \o lines[i]]

\* What the claim says a stream of more than L lines is rendered as
ClippedTo(mark, lines, L) ==
    <<ClipMarker(mark)>> \o LastN(Prefixed(mark, lines), L)
    \o <<ClipFooter(mark, L, Len(lines))>>

StreamsCalled == pc = "computed" /\ arg.kind = "streams"

\* C11: without long-output, a stream of M lines with M > L is rendered as one
\* ellipsis marker line, its last L lines each with the stream's prefix, and
\* the footer 'Output clipped to the last L of M lines'; with long-output
\* every line of both streams is rendered and there is no marker or footer.
C11_ClippedToLastLines ==
    StreamsCalled =>
        LET L == arg.limit_lines
            body == ret.value
            err == SplitLines(arg.stderr)
            out == SplitLines(arg.stdout)
        IN  /\ (~arg.long_output /\ Len(err) > L) =>
                MarkedLines(body, "X") = ClippedTo("X", err, L)
            /\ (~arg.long_output /\ Len(out) > L) =>
                MarkedLines(body, ">") = ClippedTo(">", out, L)
            /\ arg.long_output =>
                /\ MarkedLines(body, "X") = Prefixed("X", err)
                /\ MarkedLines(body, ">") = Prefixed(">", out)

\* C20: without long-output, a stream of at most L lines is rendered with all
\* its lines and neither marker nor footer, whatever the other stream holds.
C20_ClipOnlyTheLongStream ==
    (StreamsCalled /\ ~arg.long_output) =>
        LET L == arg.limit_lines
            body == ret.value
            err == SplitLines(arg.stderr)
            out == SplitLines(arg.stdout)
        IN  /\ Len(err) <= L => MarkedLines(body, "X") = Prefixed("X", err)
            /\ Len(out) <= L => MarkedLines(body, ">") = Prefixed(">", out)

-----------------------------------------------------------------------------
(* Claims about _get_terminal_size, under SpecTermSize *)

TermSizeCalled == pc = "computed" /\ arg.kind = "fd"

\* C12 as stated: each of the four combinations (width from the platform query
\* or from COLUMNS) x (height from the platform query or from LINES) is the
\* result of _get_terminal_size in some terminal and environment.
C12_AllFourCombinations ==
    TermSizeCalled =>
        \A w \in {"platform", "environment"} : \A h \in {"platform", "environment"} :
            \E e \in TermEnvs :
                /\ _get_terminal_size(e).columns_from = w
                /\ _get_terminal_size(e).lines_from = h

\* C12 amended: the platform query gives both dimensions or neither; when it
\* fails, the width is COLUMNS if that is an integer and the height is LINES
\* if that is an integer, each whatever the other is.
C12_BothOrIndependentFallback ==
    TermSizeCalled =>
        LET r == ret.value
        IN  /\ (r.columns_from = "platform") <=> (env.winsize # None)
            /\ (r.lines_from = "platform") <=> (env.winsize # None)
            /\ env.winsize # None =>
                /\ r.term_columns = <<env.winsize[2]>>
                /\ r.term_lines = <<env.winsize[1]>>
            /\ env.winsize = None =>
                /\ r.term_columns = EnvironInt(env.COLUMNS)
                /\ r.term_lines = EnvironInt(env.LINES)
                /\ (r.columns_from = "environment") <=> (EnvironInt(env.COLUMNS) # <<>>)
                /\ (r.lines_from = "environment") <=> (EnvironInt(env.LINES) # <<>>)

\* The query failed, COLUMNS is not a number and LINES gave the height.
C12_Witness ==
    /\ TermSizeCalled
    /\ env.winsize = None
    /\ ret.value.columns_from = "none"
    /\ ret.value.lines_from = "environment"

-----------------------------------------------------------------------------
(* Claims about the rendering of a complete dispatch, under SpecCollect *)

\* sub stands in seq as a contiguous run
Occurs(sub, seq) ==
    \E p \in 1..(Len(seq) - Len(sub) + 1) : SubSeq(seq, p, p + Len(sub) - 1) = sub

\* The index of the unit of a server and a command number in the run queue
UnitOf(s, c) == CHOOSE i \in DOMAIN RunQueue :
                    RunQueue[i].server = s /\ RunQueue[i].cmd_num = c

\* The row the claim describes for a server: the name, one exit-code cell
\* per dispatched command in ascending number, the first line of what
\* command 1 wrote to stdout.
ClaimedRow(s, color) ==
    PadLeft(s, Max({Len(servers[k]) : k \in DOMAIN servers}) + 4) \o <<":", " ", " ">>
    \o Flatten([c \in 1..NumCommands |->
                  RetvalCell(proc[UnitOf(s, c)].returncode, color)])
    \o <<" ", " ">> \o BeforeNewline(disk[ArtifactName(s, 1, "stdout")])

\* The rows of a one-line report: what follows the 'Results:' line
RowsOf(lines) == SubSeq(lines, Len(lines) - NumServers + 1, Len(lines))

\* C13: in one-line mode the report ends with one row per server, each
\* showing one exit-code cell per command in ascending number and then the
\* first line of command 1's stdout, and the rows are the same for every
\* setting of long_output and wide_output.
C13_OneLineRow ==
    (flags.one_line /\ "print_execution_results" \in ran) =>
        /\ exc = "none"
        /\ Len(shown) >= NumServers
        /\ \A k \in DOMAIN servers :
            \A long \in BOOLEAN : \A wide \in BOOLEAN :
                LET r == RunOutput(disk, commands,
                                   [flags EXCEPT !.long_output = long,
                                                 !.wide_output = wide], env)
                IN  /\ r.raised = "none"
                    /\ RowsOf(r.value)[k] = ClaimedRow(servers[k], flags.color)

\* outputs have been collected for a report that is not cut to a width
CollectedForWideReport ==
    /\ "read_result_files" \in ran
    /\ exc = "none"
    /\ ~flags.one_line
    /\ flags.wide_output \/ _get_terminal_size(env).term_columns = <<>>

\* The report of the collected results in one of the two block modes
BlockReport(transpose_output) ==
    print_execution_results(results, commands,
                            [flags EXCEPT !.transpose_output = transpose_output], env)

\* A unit's block in a report: its header line, then its body
UnitBlock(label, num, s, c, sep, tail) ==
    LET size == _get_terminal_size(env)
    IN  << UnitHeader(label, num, results[s][c], flags.color, sep, tail) >>
        \o _std_streams_lines(results[s][c],
                              flags.long_output \/ size.term_lines = <<>>,
                              IF size.term_lines = <<>> THEN 0 ELSE size.term_lines[1])

\* C14: for the same collected results, commands and flags, the transposed
\* and the grouped report render the same execution units, each with the
\* same exit code, line counts and body; transposed lists the commands in
\* ascending legend number with the servers of each in lexicographic order,
\* grouped lists the servers in lexicographic order with the commands of
\* each in ascending number.
C14_SameUnitsInBothModes ==
    CollectedForWideReport =>
        LET tr == BlockReport(TRUE)
            gr == BlockReport(FALSE)
            tunits == TransposedUnits(results, CmdMap(commands))
            gunits == GroupedUnits(results)
        IN  /\ tr.raised = "none"
            /\ gr.raised = "none"
            /\ {<<tunits[j].srv, tunits[j].cmd_num>> : j \in DOMAIN tunits}
               = {<<gunits[j].srv, gunits[j].cmd_num>> : j \in DOMAIN gunits}
            /\ \A j \in DOMAIN gunits :
                LET u == gunits[j]
                IN  Occurs(UnitBlock(<<"c", "m", "d", "#">>, u.cmd_num, u.srv, u.cmd_num,
                                     "$", CommandText(RunQueue[UnitOf(u.srv, u.cmd_num)].cmd)),
                           gr.value)
            /\ \A j \in DOMAIN tunits :
                LET u == tunits[j]
                IN  Occurs(UnitBlock(<<"s", "r", "v", "#">>, u.srv_num, u.srv, u.cmd_num,
                                     "-", u.srv),
                           tr.value)
            /\ \A j \in DOMAIN tunits : \A k \in DOMAIN tunits :
                j < k => \/ tunits[j].cmd_num < tunits[k].cmd_num
                         \/ /\ tunits[j].cmd_num = tunits[k].cmd_num
                            /\ StrLess(tunits[j].srv, tunits[k].srv)
            /\ \A j \in DOMAIN gunits : \A k \in DOMAIN gunits :
                j < k => \/ StrLess(gunits[j].srv, gunits[k].srv)
                         \/ /\ gunits[j].srv = gunits[k].srv
                            /\ gunits[j].cmd_num < gunits[k].cmd_num

\* The writes of a run that show '<EMPTY OUTPUT>' for a server and a command
EmptyOutputWrites(writes, s, c) ==
    {j \in DOMAIN writes :
        /\ writes[j].unit = <<s, IntStr(c)>>
        /\ Occurs(EmptyOutput, writes[j].text)}

\* C15: redirect_streams without quiet, in either sort order and with or
\* without colour, writes '<EMPTY OUTPUT>' for a dispatched (server, command)
\* pair exactly once, to stdout, if both its stdout and its stderr artifact
\* are empty, and never otherwise.
C15_EmptyOutputOncePerEmptyPair ==
    (pc = "returned" \/ "redirect_streams" \in ran) =>
        \A transpose_output \in BOOLEAN : \A color \in BOOLEAN :
            LET writes == redirect_streams(disk, FALSE, transpose_output, color)
            IN  \A i \in DOMAIN RunQueue :
                    LET s == RunQueue[i].server
                        c == RunQueue[i].cmd_num
                        marks == EmptyOutputWrites(writes, s, c)
                    IN  /\ \A j \in marks : writes[j].stream = "stdout"
                        /\ IF /\ disk[ArtifactName(s, c, "stdout")] = <<>>
                              /\ disk[ArtifactName(s, c, "stderr")] = <<>>
                           THEN Cardinality(marks) = 1
                           ELSE marks = {}

-----------------------------------------------------------------------------
(* Claims about run_poh's display flags and numbering, under SpecRender *)

\* C18: with raw_output or quiet_output the output is redirect_streams' alone
\* and the same for every setting of one_line, long_output and wide_output;
\* with quiet_output it is the artifacts as they are, with no server prefix
\* and no colour, whatever raw_output and color are; with neither flag and
\* one_line set the output is the same for both settings of long_output.
C18_FlagPrecedence ==
    pc = "done" =>
        /\ (flags.raw_output \/ flags.quiet_output) =>
            /\ ran = {"redirect_streams"}
            /\ \A one \in BOOLEAN : \A long \in BOOLEAN : \A wide \in BOOLEAN :
                RunOutput(disk, commands,
                          [flags EXCEPT !.one_line = one, !.long_output = long,
                                        !.wide_output = wide], env)
                = Returned(shown)
        /\ flags.quiet_output =>
            /\ \A j \in DOMAIN shown :
                shown[j].text = disk[shown[j].unit[1] \o <<".">> \o shown[j].unit[2]
                                     \o <<".", shown[j].stream>>]
            /\ \A raw \in BOOLEAN : \A color \in BOOLEAN :
                RunOutput(disk, commands,
                          [flags EXCEPT !.raw_output = raw, !.color = color], env)
                = Returned(shown)
        /\ (~flags.raw_output /\ ~flags.quiet_output /\ flags.one_line) =>
            \A long \in BOOLEAN :
                LET r == RunOutput(disk, commands,
                                   [flags EXCEPT !.long_output = long], env)
                IN  r.raised = "none" /\ PrintedAll(r.value) = shown

\* A quiet run with raw_output and color set has copied something.
C18_Witness ==
    /\ pc = "done"
    /\ flags.quiet_output /\ flags.raw_output /\ flags.color
    /\ shown # <<>>

\* What the files of the i-th unit of the run queue hold, as collected
UnitFiles(i) ==
    [ft \in {"retval", "stdout", "stderr"} |->
        ReadArtifact(disk[ArtifactName(RunQueue[i].server, RunQueue[i].cmd_num, ft)],
                     ft, FALSE)]

\* The report is not cut to a width
WideReport ==
    /\ "print_execution_results" \in ran
    /\ flags.wide_output \/ _get_terminal_size(env).term_columns = <<>>

ShownLines == [j \in DOMAIN shown |-> shown[j].text]

\* C19: for every order of the command sources, the legend lists the command
\* remote_execute ran as number n under the number n, and every result header
\* of the grouped and the transposed report shows, with the exit code and
\* line counts of the artifacts named <server>.<n>.*, the text of that
\* command.
C19_LegendNumberIsArtifactNumber ==
    WideReport =>
        /\ exc = "none"
        /\ \A n \in 1..NumCommands :
            ShownLines[n + 1] = <<" ", " ">> \o PadLeft(IntStr(n), 4) \o <<".", " ">>
                                \o CommandText(RunQueue[n].cmd)
        /\ ShownLines[NumCommands + 2] = <<>>
        /\ (~flags.one_line /\ ~flags.transpose_output) =>
            \A i \in DOMAIN RunQueue :
                \E j \in DOMAIN ShownLines :
                    ShownLines[j] = UnitHeader(<<"c", "m", "d", "#">>, RunQueue[i].cmd_num,
                                               UnitFiles(i), flags.color, "$",
                                               CommandText(RunQueue[i].cmd))
        /\ (~flags.one_line /\ flags.transpose_output) =>
            \A n \in 1..NumCommands :
                Occurs(<< <<" ", " ", "c", "m", "d", "#">> \o PadRight(IntStr(n), 4)
                          \o <<"$", " ">> \o CommandText(RunQueue[n].cmd) >>
                       \o Flatten([k \in DOMAIN servers |->
                             << UnitHeader(<<"s", "r", "v", "#">>, k,
                                           UnitFiles(UnitOf(servers[k], n)), flags.color,
                                           "-", servers[k]) >>
                             \o _std_streams_lines(
                                    UnitFiles(UnitOf(servers[k], n)),
                                    flags.long_output
                                        \/ _get_terminal_size(env).term_lines = <<>>,
                                    IF _get_terminal_size(env).term_lines = <<>> THEN 0
                                    ELSE _get_terminal_size(env).term_lines[1])]),
                       ShownLines)

\* A report of two sources, the positional commands last, has been printed
\* in a block mode.
C19_Witness ==
    /\ WideReport
    /\ pc = "done"
    /\ ~flags.one_line
    /\ Len(commands) = 2
    /\ commands[2].src = "None"
    /\ NumServers > 1

-----------------------------------------------------------------------------
(* Claims about the end of run_poh, under SpecRun *)

RemoveCalled == "_remove_output_dir" \in ran

RunEnded == pc \in {"ended", "raised"}

\* C17: once run_poh has ended, the directory is removed if no retention was
\* asked for, and is still there if it was.
C17_RemovedUnlessRetained ==
    /\ (RunEnded /\ ~KeepOutputSet) => outdir = "removed"
    /\ KeepOutputSet => outdir = "present"

\* The half of C17 that holds on every platform, and the other half for a
\* run that returns on a platform whose rmtree is safe or cannot say.
C17_RetainedOrReturnedAndRemovable ==
    /\ KeepOutputSet => outdir = "present"
    /\ (pc = "ended" /\ ~KeepOutputSet /\ env.rmtree # "unsafe") => outdir = "removed"

-----------------------------------------------------------------------------
(* Claims about the retval artifacts of remote_execute, under Spec *)

\* What has been written for unit i's exit code, in its file and its handle
RetvalWritten(i) == disk[UnitPaths(i)[1]] \o rvbuf[UnitPaths(i)[1]]

\* Starting a unit has failed: open() or Popen raised in the start loop
StartFailed == exc \in {"IOError", "OSError"}

\* C21: a unit's retval artifact holds nothing or its one exit code, and an
\* exit code only for a unit whose process was started, has ended and has
\* been waited on; once starting a unit has failed, no unit started before it
\* is ever waited on by remote_execute, whether its process goes on running
\* or ends, and every retval artifact of the run stays empty.
C21_RetvalOnceAndNoneAfterStartFailure ==
    /\ \A i \in DOMAIN RunQueue :
        UnitPaths(i)[1] \in DOMAIN disk =>
            \/ RetvalWritten(i) = <<>>
            \/ /\ proc[i].state = "exited"
               /\ \E j \in 1..nwaited : child_procs[j] = i
               /\ RetvalWritten(i) = RetvalText(i)
    /\ StartFailed =>
        /\ nwaited = 0
        /\ pc \in {"finally", "raised"}
        /\ \A j \in DOMAIN child_procs : proc[child_procs[j]].state \in {"running", "exited"}
        /\ \A i \in DOMAIN RunQueue :
            UnitPaths(i)[1] \in DOMAIN disk => RetvalWritten(i) = <<>>

\* The third unit could not be started and remote_execute has been left: the
\* first unit's process has ended, the second is still running, and neither
\* has an exit code on file.
C21_Witness ==
    /\ StartFailed
    /\ pc = "raised"
    /\ Len(child_procs) = 2
    /\ proc[1].state = "exited"
    /\ proc[2].state = "running"
    /\ handles[UnitPaths(1)[1]] = "closed"
    /\ disk[UnitPaths(1)[1]] = <<>>

=============================================================================
